---- MODULE Spec2Model ----
(***************************************************************************)
(* yt-search-proxy: the fallback/aggregation engine of the search proxy.   *)
(*                                                                         *)
(* The repository holds four revisions of the server, modelled together    *)
(* and told apart by the variable `variant`:                               *)
(*   "race"   src/server.js:192-537   pools, race per tier, HTML scrape    *)
(*   "seq"    src/server.js:1-190     fixed pools, sequential firstOk      *)
(*   "pool"   src/unnamed/part_000    env pools, sequential firstOk        *)
(*   "legacy" src/unnamed/part_001    single bases, hard 502 on failure    *)
(*                                                                         *)
(* One shared LRU store holds raw upstream payloads ("UPSTREAM:" + url)    *)
(* and rendered responses (inbound path+query).  Requests are handled on   *)
(* one event loop: a handler runs until it awaits a fetch, and resumes     *)
(* when a fetch settles.  Under Spec the requests arrive one after the     *)
(* other's response; the fetches a race left behind go on meanwhile.       *)
(***************************************************************************)
EXTENDS Integers, Sequences, FiniteSets, TLC

VARIABLES variant, env, now, cache, order, evict, okAt, served, cur, peer, inflight,
          fn, arg, out

vars == <<variant, env, now, cache, order, evict, okAt, served, cur, peer, inflight,
          fn, arg, out>>

(* ------------------------------ bounds -------------------------------- *)

\* ticks of the clock the model lets pass
MaxTime == 2

\* inbound requests the model lets arrive, one after the other's response
MaxRequests == 2

(* --------------------------- configuration ---------------------------- *)

\* respCache capacity (process.env.CACHE_MAX), scaled down
CACHE_MAX == 3

\* entry lifetime in clock ticks (CACHE_TTL_S * 1000 ms), scaled down
CACHE_TTL == 1

\* members of the built-in list of each mirror pool (INVIDIOUS_POOL, PIPED_POOL)
PoolSize == 1

Variants == {"race", "seq", "pool", "legacy"}

\* a value that is undefined or null in the JavaScript source
UNDEF == "undefined"

\* an optional value: <<>> is null/absent, <<v>> is v
None == <<>>

Some(v) == <<v>>

(* ------------------------------ helpers ------------------------------- *)

\* a ?? b
Coalesce(a, b) == IF a # UNDEF THEN a ELSE b

RECURSIVE TrimLeft(_)
TrimLeft(s) == IF s # <<>> /\ Head(s) = " " THEN TrimLeft(Tail(s)) ELSE s

RECURSIVE TrimRight(_)
TrimRight(s) ==
    IF s # <<>> /\ s[Len(s)] = " " THEN TrimRight(SubSeq(s, 1, Len(s) - 1)) ELSE s

\* QueryOf without the trim
QueryOf_NoTrim(qParam) == IF qParam = None THEN <<>> ELSE qParam[1]

\* String(req.query.q || "").trim(): an absent q reads as ""
QueryOf(qParam) == IF qParam = None THEN <<>> ELSE TrimRight(TrimLeft(qParam[1]))

\* Number(req.query.page || 1)
PageOf(pageParam) == IF pageParam = None THEN 1 ELSE pageParam[1]

\* req.originalUrl: the path and the query string exactly as sent
InboundKey(ep, qParam, pageParam) == <<"/" \o ep, qParam, pageParam>>

\* "UPSTREAM:" + u
UpstreamKey(u) == <<"UPSTREAM:", u>>

(* ----------------------------- LRU store ------------------------------ *)
(* cache is the list of entries from least to most recently used.          *)
(* start is the instant the TTL runs from; born is history: the instant of *)
(* the insertion.  The variable order is history too: the keys in the      *)
(* store, from the one whose last get-hit or set is oldest to the newest.  *)

IsStale(e, t) == t - e.start > CACHE_TTL

IndexOf(c, k) ==
    IF \E i \in 1..Len(c) : c[i].key = k
    THEN CHOOSE i \in 1..Len(c) : c[i].key = k
    ELSE 0

Without(c, i) == SubSeq(c, 1, i - 1) \o SubSeq(c, i + 1, Len(c))

\* cache.has(k): no recency update, no deletion
LruHas(c, k, t) == IndexOf(c, k) # 0 /\ ~IsStale(c[IndexOf(c, k)], t)

\* a get that restarts the lifetime of the entry it returns
LruGetStore_Refresh(c, k, t) ==
    LET i == IndexOf(c, k) IN
    IF i = 0 THEN c
    ELSE IF IsStale(c[i], t) THEN Without(c, i)
    ELSE Append(Without(c, i), [c[i] EXCEPT !.start = t])

\* the store after cache.get(k) at instant t
LruGetStore(c, k, t) ==
    LET i == IndexOf(c, k) IN
    IF i = 0 THEN c
    ELSE IF IsStale(c[i], t) THEN Without(c, i)
    ELSE Append(Without(c, i), c[i])

\* what cache.get(k) returns: <<>> on a miss, <<entry>> on a hit
LruGetHit(c, k, t) ==
    LET i == IndexOf(c, k) IN
    IF i = 0 \/ IsStale(c[i], t) THEN None ELSE Some(c[i])

\* a set that makes room by dropping the most recently used entry
LruSet_DropNewest(c, k, v, t) ==
    LET i == IndexOf(c, k)
        e == [key |-> k, val |-> v, start |-> t, born |-> t]
    IN  IF i # 0 THEN Append(Without(c, i), e)
        ELSE IF Len(c) >= CACHE_MAX THEN Append(SubSeq(c, 1, Len(c) - 1), e)
        ELSE Append(c, e)

\* the store after cache.set(k, v) at instant t
LruSet(c, k, v, t) ==
    LET i == IndexOf(c, k)
        e == [key |-> k, val |-> v, start |-> t, born |-> t]
    IN  IF i # 0 THEN Append(Without(c, i), e)
        ELSE IF Len(c) >= CACHE_MAX THEN Append(Tail(c), e)
        ELSE Append(c, e)

(* --------------------------- upstream data ---------------------------- *)
(* A raw upstream entry is a record of the fields the normalizers read; a  *)
(* field the upstream did not send is UNDEF (an absent list is None).  The *)
(* view fields hold JavaScript values: a number, a string, or nothing.     *)

JNum(n) == [t |-> "num", n |-> n, s |-> <<>>]

JStr(s) == [t |-> "str", n |-> 0, s |-> s]

JNaN == [t |-> "nan", n |-> 0, s |-> <<>>]

JNull == [t |-> "null", n |-> 0, s |-> <<>>]

JUndef == [t |-> "undef", n |-> 0, s |-> <<>>]

BlankItem ==
    [type |-> UNDEF, videoId |-> UNDEF, id |-> UNDEF, authorId |-> UNDEF,
     channelId |-> UNDEF, playlistId |-> UNDEF, ucid |-> UNDEF, title |-> UNDEF,
     author |-> UNDEF, uploader |-> UNDEF, channelName |-> UNDEF, name |-> UNDEF,
     uploaderId |-> UNDEF, lengthSeconds |-> UNDEF, duration |-> UNDEF,
     viewCount |-> JUndef, views |-> JUndef, publishedText |-> UNDEF,
     uploadedDate |-> UNDEF, videoThumbnails |-> None, thumbnails |-> None,
     authorThumbnails |-> None]

\* a list element that is null instead of an object: reading a field of it throws
NullElem == [BlankItem EXCEPT !.type = "#null"]

IsNullElem(it) == it.type = "#null"

DigitOf(ch) ==
    CASE ch = "0" -> 0 [] ch = "1" -> 1 [] ch = "2" -> 2 [] ch = "3" -> 3
      [] ch = "4" -> 4 [] ch = "5" -> 5 [] ch = "6" -> 6 [] ch = "7" -> 7
      [] ch = "8" -> 8 [] ch = "9" -> 9 [] OTHER -> -1

RECURSIVE DigitsValue(_, _)
DigitsValue(s, acc) ==
    IF s = <<>> THEN acc ELSE DigitsValue(Tail(s), acc * 10 + DigitOf(Head(s)))

\* Number(x): a number stays, a string of digits is read, "" is 0, the rest is NaN
ToNumber(j) ==
    CASE j.t = "num" -> j
      [] j.t = "nan" -> JNaN
      [] j.t = "null" -> JNum(0)
      [] j.t = "undef" -> JNaN
      [] j.t = "str" ->
            IF \A i \in 1..Len(j.s) : DigitOf(j.s[i]) >= 0
            THEN JNum(DigitsValue(j.s, 0))
            ELSE JNaN

\* a ?? b on JavaScript values
JCoalesce(a, b) == IF a.t \in {"undef", "null"} THEN b ELSE a

\* JSON.stringify of a number field: NaN is written as null
StringifyNum(j) == IF j.t = "nan" THEN JNull ELSE j

\* xs.slice(0, n)
Slice(xs, n) == SubSeq(xs, 1, IF Len(xs) < n THEN Len(xs) ELSE n)

\* (a ?? b ?? []) for lists of thumbnail urls
ThumbList(a, b) == IF a # None THEN a[1] ELSE IF b # None THEN b[1] ELSE <<>>

\* normalizeVideo reading the channel name from channelName before its other aliases
normalizeVideo_NameFirst(v) ==
    [id |-> Coalesce(v.videoId, Coalesce(v.id, "null")),
     title |-> Coalesce(v.title, ""),
     channelName |-> Coalesce(v.channelName, Coalesce(v.author, Coalesce(v.uploader, "null"))),
     channelId |-> Coalesce(v.authorId, Coalesce(v.uploaderId, Coalesce(v.channelId, "null"))),
     durationSeconds |-> Coalesce(v.lengthSeconds, Coalesce(v.duration, "null")),
     viewCount |-> ToNumber(JCoalesce(v.viewCount, JCoalesce(v.views, JNum(0)))),
     publishedText |-> Coalesce(v.publishedText, Coalesce(v.uploadedDate, "null")),
     thumbnails |-> Slice(ThumbList(v.videoThumbnails, v.thumbnails), 3)]

\* normalizeVideo without Number(...) around the view count
normalizeVideo_NoNumber(v) ==
    [id |-> Coalesce(v.videoId, Coalesce(v.id, "null")),
     title |-> Coalesce(v.title, ""),
     channelName |-> Coalesce(v.author, Coalesce(v.uploader, Coalesce(v.channelName, "null"))),
     channelId |-> Coalesce(v.authorId, Coalesce(v.uploaderId, Coalesce(v.channelId, "null"))),
     durationSeconds |-> Coalesce(v.lengthSeconds, Coalesce(v.duration, "null")),
     viewCount |-> JCoalesce(v.viewCount, JCoalesce(v.views, JNum(0))),
     publishedText |-> Coalesce(v.publishedText, Coalesce(v.uploadedDate, "null")),
     thumbnails |-> Slice(ThumbList(v.videoThumbnails, v.thumbnails), 3)]

normalizeVideo(v) ==
    [id |-> Coalesce(v.videoId, Coalesce(v.id, "null")),
     title |-> Coalesce(v.title, ""),
     channelName |-> Coalesce(v.author, Coalesce(v.uploader, Coalesce(v.channelName, "null"))),
     channelId |-> Coalesce(v.authorId, Coalesce(v.uploaderId, Coalesce(v.channelId, "null"))),
     durationSeconds |-> Coalesce(v.lengthSeconds, Coalesce(v.duration, "null")),
     viewCount |-> ToNumber(JCoalesce(v.viewCount, JCoalesce(v.views, JNum(0)))),
     publishedText |-> Coalesce(v.publishedText, Coalesce(v.uploadedDate, "null")),
     thumbnails |-> Slice(ThumbList(v.videoThumbnails, v.thumbnails), 3)]

normalizeChannel(c) ==
    [id |-> Coalesce(c.authorId, Coalesce(c.id, Coalesce(c.ucid, "null"))),
     title |-> Coalesce(c.author, Coalesce(c.name, Coalesce(c.title, ""))),
     avatar |-> LET l == ThumbList(c.authorThumbnails, c.thumbnails)
                IN  IF l = <<>> THEN "null" ELSE l[1]]

\* a JavaScript truthiness test of a string field
Truthy(x) == x # UNDEF /\ x # ""

\* canonical items: kind, and the data of the kind (the other two blank)
NoVideo == normalizeVideo(BlankItem)

NoChannel == normalizeChannel(BlankItem)

NoPlaylist == [id |-> UNDEF, title |-> UNDEF]

VideoItem(d) == [kind |-> "video", video |-> d, channel |-> NoChannel, playlist |-> NoPlaylist]

ChannelItem(d) == [kind |-> "channel", video |-> NoVideo, channel |-> d, playlist |-> NoPlaylist]

PlaylistItem(d) == [kind |-> "playlist", video |-> NoVideo, channel |-> NoChannel, playlist |-> d]

\* the mapper returned null: removed by .filter(Boolean)
Dropped == [kind |-> "none", video |-> NoVideo, channel |-> NoChannel, playlist |-> NoPlaylist]

RECURSIVE MapSeq(_, _)
MapSeq(Op(_), xs) == IF xs = <<>> THEN <<>> ELSE <<Op(Head(xs))>> \o MapSeq(Op, Tail(xs))

RECURSIVE FilterSeq(_, _)
FilterSeq(Keep(_), xs) ==
    IF xs = <<>> THEN <<>>
    ELSE (IF Keep(Head(xs)) THEN <<Head(xs)>> ELSE <<>>) \o FilterSeq(Keep, Tail(xs))

NotDropped(x) == x.kind # "none"

\* /search, Invidious tier of the race revision: type or a defining id field
InvSearchItem(it) ==
    IF it.type = "video" \/ Truthy(it.videoId) THEN VideoItem(normalizeVideo(it))
    ELSE IF it.type = "channel" \/ Truthy(it.authorId) \/ Truthy(it.channelId)
         THEN ChannelItem(normalizeChannel(it))
    ELSE IF it.type = "playlist" \/ Truthy(it.playlistId)
         THEN PlaylistItem([id |-> it.playlistId, title |-> Coalesce(it.title, "")])
    ELSE Dropped

\* /search, Invidious tier of the sequential revisions: no channelId test, title as sent
InvSearchItemSeq(it) ==
    IF it.type = "video" \/ Truthy(it.videoId) THEN VideoItem(normalizeVideo(it))
    ELSE IF it.type = "channel" \/ Truthy(it.authorId)
         THEN ChannelItem(normalizeChannel(it))
    ELSE IF it.type = "playlist" \/ Truthy(it.playlistId)
         THEN PlaylistItem([id |-> it.playlistId, title |-> it.title])
    ELSE Dropped

\* the Piped tier classifying as the Invidious tier does
PipSearchItem_AsInv(it) ==
    IF it.type = "video" \/ Truthy(it.videoId) THEN VideoItem(normalizeVideo(it))
    ELSE IF it.type = "channel" \/ Truthy(it.authorId) \/ Truthy(it.channelId)
         THEN ChannelItem(normalizeChannel(it))
    ELSE IF it.type = "playlist" \/ Truthy(it.playlistId)
         THEN PlaylistItem([id |-> it.playlistId, title |-> Coalesce(it.title, "")])
    ELSE Dropped

\* /search, Piped tier of the race revision: the type alone decides
PipSearchItem(it) ==
    IF it.type = "video" THEN VideoItem(normalizeVideo(it))
    ELSE IF it.type = "channel" THEN ChannelItem(normalizeChannel(it))
    ELSE IF it.type = "playlist"
         THEN PlaylistItem([id |-> Coalesce(it.playlistId, it.id), title |-> Coalesce(it.title, "")])
    ELSE Dropped

\* /search, Piped tier of the sequential revisions: title as sent
PipSearchItemSeq(it) ==
    IF it.type = "video" THEN VideoItem(normalizeVideo(it))
    ELSE IF it.type = "channel" THEN ChannelItem(normalizeChannel(it))
    ELSE IF it.type = "playlist"
         THEN PlaylistItem([id |-> Coalesce(it.playlistId, it.id), title |-> it.title])
    ELSE Dropped

\* /channels filters
InvChannelKeep(x) ==
    Coalesce(x.type, "") = "channel" \/ Truthy(x.authorId) \/ Truthy(x.channelId)

InvChannelKeepSeq(x) == Coalesce(x.type, "") = "channel" \/ Truthy(x.authorId)

PipChannelKeep(x) == x.type = "channel" \/ Truthy(x.authorId) \/ Truthy(x.channelId)

AsChannel(x) == ChannelItem(normalizeChannel(x))


(* ------------------------- pools and candidates ----------------------- *)

\* s.split(","): the pieces of s between the commas
RECURSIVE Split(_, _)
Split(s, piece) ==
    IF s = <<>> THEN <<piece>>
    ELSE IF Head(s) = "," THEN <<piece>> \o Split(Tail(s), <<>>)
    ELSE Split(Tail(s), Append(piece, Head(s)))

Trim(s) == TrimRight(TrimLeft(s))

NonEmpty(s) == s # <<>>

\* process.env[envVar]?.split(",").map(s => s.trim()).filter(Boolean) || fallback:
\* e is <<>> when the variable is unset, <<s>> when it is set to s; an array,
\* empty or not, is truthy
parsePool(e, fallback) ==
    IF e = None THEN fallback
    ELSE FilterSeq(NonEmpty, MapSeq(Trim, Split(e[1], <<>>)))

\* the built-in list of a pool
DefaultPool == [i \in 1..PoolSize |-> <<"d">>]

\* the mirror pool of a family: the pooled revisions read it from the environment
\* (parsePool), "seq" has [INV] / [PIP], "legacy" has the single base
Pool(v, fam) ==
    IF v \in {"race", "pool"}
    THEN [i \in 1..Len(parsePool(env[fam], DefaultPool)) |-> [fam |-> fam, n |-> i]]
    ELSE <<[fam |-> fam, n |-> 1]>>

Url(base, path, q, page) ==
    [fam |-> base.fam, n |-> base.n, path |-> path, q |-> q, page |-> page]

NoUrl == [fam |-> "none", n |-> 0, path |-> "", q |-> <<>>, page |-> 0]

\* PIPED_POOL.map(path1) followed by PIPED_POOL.map(path2)
OverPool(pool, path, q, page) == [i \in 1..Len(pool) |-> Url(pool[i], path, q, page)]

GoogleUrl(q) ==
    Url([fam |-> "google", n |-> 1], "/complete/search?client=firefox&ds=yt&q=", q, 0)

HtmlUrl(q) == Url([fam |-> "yt", n |-> 1], "/results?search_query=", q, 0)

\* the tiers of an endpoint, in the order the handler tries them
Tiers(v, ep) ==
    CASE v = "race" /\ ep = "suggest" -> <<"inv", "pip", "google">>
      [] v = "race" /\ ep # "suggest" -> <<"inv", "pip", "html">>
      [] v = "pool" /\ ep = "suggest" -> <<"inv", "pip", "google">>
      [] OTHER -> <<"inv", "pip">>

\* the candidate urls of one tier
CandUrls(v, ep, tier, q, page) ==
    LET inv == Pool(v, "inv")
        pip == Pool(v, "pip")
        two == v = "race"
    IN  CASE tier = "google" -> <<GoogleUrl(q)>>
          [] tier = "html" -> <<HtmlUrl(q)>>
          [] tier = "inv" /\ ep = "suggest" ->
                OverPool(inv, "/api/v1/search/suggestions?q=", q, 0)
          [] tier = "inv" /\ ep = "channels" ->
                OverPool(inv, "/api/v1/search?q=&page=", <<"type:channel", " ">> \o q, page)
          [] tier = "inv" /\ ep = "search" ->
                OverPool(inv, "/api/v1/search?q=&page=", q, page)
          [] tier = "pip" /\ ep = "suggest" ->
                OverPool(pip, "/suggestions?query=", q, 0)
                \o (IF two THEN OverPool(pip, "/api/v1/suggestions?q=", q, 0) ELSE <<>>)
          [] tier = "pip" /\ ep = "channels" ->
                OverPool(pip, "/search?query=&filter=channels&page=", q, page)
                \o (IF two
                    THEN OverPool(pip, "/api/v1/search?q=&filter=channels&page=", q, page)
                    ELSE <<>>)
          [] tier = "pip" /\ ep = "search" ->
                OverPool(pip, "/search?query=&page=", q, page)
                \o (IF two THEN OverPool(pip, "/api/v1/search?q=&page=", q, page) ELSE <<>>)

\* how the candidates of a tier are run
Strategy(v, tier) ==
    IF tier \in {"google", "html"} THEN "single"
    ELSE IF v = "race" THEN "race"
    ELSE "seq"

\* only the JSON tiers go through the raw cache: the page fetch is fetchText alone
IsCached(tier) == tier # "html"


(* ------------------------ payload to response ------------------------- *)
(* A parsed upstream payload: shape "array" is a JSON array (list is it),  *)
(* "object" an object holding the list under items / suggestions, "null"   *)
(* the JSON null, "pair" Google's ["q", [s1, ...]] (list is the second     *)
(* element), "html" a results page whose embedded blob parsed (list is its *)
(* renderers, in walk order), "nohtml" a page no pattern parses.           *)

Payload(shape, list) == [shape |-> shape, list |-> list]

\* the list a tier reads out of its payload; thrown is a TypeError on the way
Extract(v, ep, tier, raw) ==
    LET ok(l) == [thrown |-> FALSE, list |-> l]
        throw == [thrown |-> TRUE, list |-> <<>>]
        \* Array.isArray(raw) ? raw : (raw?.f ?? [])
        safe == IF raw.shape \in {"array", "object"} THEN ok(raw.list) ELSE ok(<<>>)
        \* Array.isArray(raw) ? raw : raw.f ?? []
        unsafe == IF raw.shape \in {"array", "object"} THEN ok(raw.list) ELSE throw
        \* (raw ?? []).map / .filter
        plain == IF raw.shape = "array" THEN ok(raw.list)
                 ELSE IF raw.shape = "null" THEN ok(<<>>) ELSE throw
    IN  CASE tier = "google" -> IF raw.shape = "pair" THEN ok(raw.list) ELSE ok(<<>>)
          [] tier = "html" -> ok(raw.list)
          [] v = "race" -> safe
          [] v = "seq" /\ ep = "suggest" -> unsafe
          [] v = "seq" /\ tier = "inv" -> plain
          [] v = "seq" /\ tier = "pip" -> unsafe
          [] v = "pool" /\ ep = "suggest" -> safe
          [] v = "pool" /\ tier = "inv" -> plain
          [] v = "pool" /\ tier = "pip" -> safe
          [] v = "legacy" /\ ep = "suggest" /\ tier = "inv" -> unsafe
          [] v = "legacy" /\ ep = "suggest" /\ tier = "pip" -> plain
          [] v = "legacy" /\ tier = "inv" -> plain
          [] v = "legacy" /\ tier = "pip" -> unsafe

RECURSIVE DigitsOf(_)
DigitsOf(n) ==
    LET d == <<"0", "1", "2", "3", "4", "5", "6", "7", "8", "9">>
    IN  IF n < 10 THEN <<d[n + 1]>> ELSE DigitsOf(n \div 10) \o <<d[(n % 10) + 1]>>

\* String(x) of a suggestion entry
ToStr(j) ==
    CASE j.t = "str" -> j.s
      [] j.t = "num" -> DigitsOf(j.n)
      [] j.t = "nan" -> <<"N", "a", "N">>
      [] j.t = "null" -> <<"n", "u", "l", "l">>
      [] j.t = "undef" -> <<"u", "n", "d", "e", "f", "i", "n", "e", "d">>

\* the cap of list.map(String).slice(0, 10)
SUGGEST_CAP == 10

Body(kind, items, suggestions, nextPage, error) ==
    [kind |-> kind, items |-> items, suggestions |-> suggestions,
     nextPage |-> nextPage, error |-> error]

ItemsBody(items, nextPage, error) == Body("items", items, <<>>, nextPage, error)

SuggestBody(list, error) == Body("suggest", <<>>, list, None, error)

StringifyItem(it) == [it EXCEPT !.video.viewCount = StringifyNum(@)]

\* JSON.stringify(payload): NaN numbers are written as null
Stringify(b) == [b EXCEPT !.items = MapSeq(StringifyItem, @)]

IsVideoRenderer(n) == n.type = "videoRenderer"

IsChannelRenderer(n) == n.type = "channelRenderer"

scrapeVideo(v) ==
    VideoItem([id |-> v.videoId,
               title |-> IF Truthy(v.title) THEN v.title ELSE "",
               channelName |-> IF Truthy(v.author) THEN v.author ELSE "null",
               channelId |-> IF Truthy(v.authorId) THEN v.authorId ELSE "null",
               durationSeconds |-> "null",
               viewCount |-> JNull,
               publishedText |-> IF Truthy(v.publishedText) THEN v.publishedText ELSE "null",
               thumbnails |-> Slice(ThumbList(v.thumbnails, None), 3)])

scrapeChannel(c) ==
    ChannelItem([id |-> IF Truthy(c.channelId) THEN c.channelId
                        ELSE IF Truthy(c.id) THEN c.id ELSE "null",
                 title |-> IF Truthy(c.title) THEN c.title ELSE "",
                 avatar |-> LET l == ThumbList(c.thumbnails, None)
                            IN  IF l = <<>> \/ ~Truthy(l[1]) THEN "null" ELSE l[1]])

\* ytHtmlFallbackSearch: the videos, then the channels, of the parsed page
ytHtmlFallbackSearch(raw) ==
    IF raw.shape # "html"
    THEN ItemsBody(<<>>, Some(2), "yt_html_parse_failed")
    ELSE ItemsBody(MapSeq(scrapeVideo, FilterSeq(IsVideoRenderer, raw.list))
                   \o MapSeq(scrapeChannel, FilterSeq(IsChannelRenderer, raw.list)),
                   Some(2), UNDEF)

\* a filter that lets every scraped item through
IsChannelKind_Any(it) == it.kind # "none"

IsChannelKind(it) == it.kind = "channel"

Respond(status, body) == [go |-> "respond", status |-> status, body |-> body]

\* the tier threw, or was found empty: the handler goes on to the next tier
FallThrough == [go |-> "next", status |-> 0, body |-> ItemsBody(<<>>, None, UNDEF)]

\* what the handler does with the payload raw that tier `tier` yielded
Accept(v, ep, tier, page, raw) ==
    LET x == Extract(v, ep, tier, raw)
        list == x.list
        hasNull == \E i \in 1..Len(list) : IsNullElem(list[i])
    IN  IF x.thrown THEN FallThrough
        ELSE IF ep = "suggest" THEN
            IF v = "pool" /\ tier # "google" /\ list = <<>> THEN FallThrough
            ELSE IF v = "legacy" THEN Respond(200, SuggestBody(MapSeq(ToStr, list), UNDEF))
            ELSE Respond(200, SuggestBody(Slice(MapSeq(ToStr, list), SUGGEST_CAP), UNDEF))
        ELSE IF tier = "html" THEN
            IF ep = "search" THEN Respond(200, ytHtmlFallbackSearch(raw))
            ELSE Respond(200, ItemsBody(FilterSeq(IsChannelKind, ytHtmlFallbackSearch(raw).items),
                                        Some(page + 1), "upstream_unavailable"))
        ELSE IF hasNull THEN FallThrough
        ELSE IF ep = "channels" THEN
            LET keep(i) == IF tier = "pip" THEN PipChannelKeep(i)
                           ELSE IF v = "race" THEN InvChannelKeep(i)
                           ELSE InvChannelKeepSeq(i)
            IN  Respond(200, ItemsBody(MapSeq(AsChannel, FilterSeq(keep, list)),
                                       Some(page + 1), UNDEF))
        ELSE
            LET item(i) == IF tier = "pip"
                           THEN (IF v = "race" THEN PipSearchItem(i) ELSE PipSearchItemSeq(i))
                           ELSE (IF v = "race" THEN InvSearchItem(i) ELSE InvSearchItemSeq(i))
            IN  Respond(200, ItemsBody(FilterSeq(NotDropped, MapSeq(item, list)),
                                       Some(page + 1), UNDEF))

\* the response when every tier has failed (the outer catch)
Exhausted(v, ep, page) ==
    IF v = "legacy"
    THEN (IF ep = "suggest"
          THEN Respond(502, SuggestBody(<<>>, "String(e)"))
          ELSE Respond(502, ItemsBody(<<>>, None, "String(e)")))
    ELSE (IF ep = "suggest"
          THEN Respond(200, SuggestBody(<<>>, "upstream_unavailable"))
          ELSE Respond(200, ItemsBody(<<>>, Some(page + 1), "upstream_unavailable")))

\* the response to an empty query
EmptyQueryBody(ep) ==
    IF ep = "suggest" THEN SuggestBody(<<>>, UNDEF) ELSE ItemsBody(<<>>, None, UNDEF)


(* ----------------------------- the handler ---------------------------- *)
(* m is the machine a handler runs on while it holds the event loop: the   *)
(* store, the order of use, the request, and the fetches it has issued.    *)

RawVal(p) == [tag |-> "raw", value |-> p, status |-> 0, body |-> EmptyQueryBody("search")]

RespVal(status, body) ==
    [tag |-> "resp", value |-> Payload("null", <<>>), status |-> status, body |-> body]

NoPayload == Payload("none", <<>>)

\* an entry of a request's log: the event, the tier, the url, the payload
Ev(e, k, u, p) == [e |-> e, k |-> k, u |-> u, p |-> p]

Log(m, ev) == [m EXCEPT !.req.log = Append(@, ev)]

\* the keys of ks that the store c holds
RECURSIVE Held(_, _)
Held(ks, c) ==
    IF ks = <<>> THEN <<>>
    ELSE (IF IndexOf(c, Head(ks)) # 0 THEN <<Head(ks)>> ELSE <<>>) \o Held(Tail(ks), c)

\* the order of use once k has been used
Used(ks, k) == LET NotK(x) == x # k IN Append(FilterSeq(NotK, ks), k)

\* cache.get(key)
GetM(m, key, t) ==
    LET c == LruGetStore(m.cache, key, t)
    IN  [m EXCEPT !.cache = c,
                  !.order = IF LruGetHit(m.cache, key, t) # None
                            THEN Used(@, key) ELSE Held(@, c)]

\* cache.set(key, val)
SetM(m, key, val, t) ==
    LET c == LruSet(m.cache, key, val, t)
        dropped == {i \in 1..Len(m.cache) : IndexOf(c, m.cache[i].key) = 0}
    IN  [m EXCEPT !.cache = c,
                  !.order = Held(Used(@, key), c),
                  !.gone = @ \cup {m.cache[i].key : i \in dropped},
                  !.evict = IF dropped = {} THEN @
                            ELSE IF @ # "other"
                                    /\ \A i \in dropped : m.cache[i].key = m.order[1]
                            THEN "lru" ELSE "other"]

\* sendJson that does not store a response carrying the error marker
sendJson_SkipDegraded(m, status, payload, t) ==
    LET body == Stringify(payload)
        m1 == IF payload.error = UNDEF THEN SetM(m, m.req.key, RespVal(status, body), t) ELSE m
    IN  [m1 EXCEPT !.req.st = "done",
                   !.req.resp = Some([status |-> status, body |-> body])]

\* sendJson(res, key, payload, status): store the rendered response, then send it
sendJson(m, status, payload, t) ==
    LET body == Stringify(payload)
        m1 == SetM(m, m.req.key, RespVal(status, body), t)
    IN  [m1 EXCEPT !.req.st = "done",
                   !.req.resp = Some([status |-> status, body |-> body])]

Fetch(gen, k, idx, u) == [gen |-> gen, k |-> k, idx |-> idx, url |-> u]

Issue(m, k, idx, u) ==
    [Log(m, Ev("issue", k, u, NoPayload)) EXCEPT !.out = @ \cup {Fetch(m.req.gen, k, idx, u)}]

\* the race's look at the raw cache: getCached of every candidate from index i on,
\* a hit settling at once and a miss issuing its fetch
RECURSIVE RaceLookups(_, _, _, _, _)
RaceLookups(m, k, cands, i, t) ==
    IF i > Len(cands) THEN m
    ELSE LET key == UpstreamKey(cands[i])
             m1 == GetM(m, key, t)
         IN  IF LruGetHit(m.cache, key, t) # None
             THEN RaceLookups(Log(m1, Ev("hit", k, cands[i],
                                         LruGetHit(m.cache, key, t)[1].val.value)),
                              k, cands, i + 1, t)
             ELSE RaceLookups(Issue(m1, k, i, cands[i]), k, cands, i + 1, t)

Min(S) == CHOOSE x \in S : \A y \in S : x <= y

RECURSIVE Enter(_, _, _, _)
RECURSIVE SeqTry(_, _, _, _, _)
RECURSIVE Took(_, _, _, _, _)

\* tier k yielded the payload raw: respond, or go on to the next tier
Took(v, m, k, raw, t) ==
    LET r == m.req
        a == Accept(v, r.ep, Tiers(v, r.ep)[k], r.page, raw)
    IN  IF a.go = "respond"
        THEN sendJson(Log(m, Ev("accept", k, NoUrl, NoPayload)), a.status, a.body, t)
        ELSE Enter(v, Log(m, Ev("reject", k, NoUrl, NoPayload)), k + 1, t)

\* firstOk from candidate i on (a single getCached / fetchText is the case of one)
SeqTry(v, m, k, i, t) ==
    LET r == m.req
        tier == Tiers(v, r.ep)[k]
        cands == CandUrls(v, r.ep, tier, r.q, r.page)
    IN  IF i > Len(cands) THEN Enter(v, Log(m, Ev("allfailed", k, NoUrl, NoPayload)), k + 1, t)
        ELSE
          LET u == cands[i]
              key == UpstreamKey(u)
              wait(mm) == [Issue(mm, k, i, u) EXCEPT !.req.st = "wait", !.req.k = k,
                                                     !.req.pending = {i}]
          IN  IF ~IsCached(tier) THEN wait(m)
              ELSE IF v = "race"
              THEN \* getCached: get, and a stale entry is dropped by the get
                   (IF LruGetHit(m.cache, key, t) # None
                    THEN Took(v, Log(GetM(m, key, t),
                                     Ev("hit", k, u, LruGetHit(m.cache, key, t)[1].val.value)),
                              k, LruGetHit(m.cache, key, t)[1].val.value, t)
                    ELSE wait(GetM(m, key, t)))
              ELSE \* getCachedJson: has, then get
                   (IF LruHas(m.cache, key, t)
                    THEN Took(v, Log(GetM(m, key, t),
                                     Ev("hit", k, u, LruGetHit(m.cache, key, t)[1].val.value)),
                              k, LruGetHit(m.cache, key, t)[1].val.value, t)
                    ELSE wait(m))

\* Enter with a race that never settles over an empty list (Promise.race)
Enter_EmptyHangs(v, m, k, t) ==
    LET r == m.req
        tiers == Tiers(v, r.ep)
    IN  IF k > Len(tiers)
        THEN LET x == Exhausted(v, r.ep, r.page) IN sendJson(m, x.status, x.body, t)
        ELSE
          LET tier == tiers[k]
              cands == CandUrls(v, r.ep, tier, r.q, r.page)
              hits == {i \in 1..Len(cands) : LruGetHit(m.cache, UpstreamKey(cands[i]), t) # None}
              m1 == RaceLookups(m, k, cands, 1, t)
          IN  IF tier = "html" /\ r.ep = "search" /\ r.page > 1
              THEN LET x == Exhausted(v, r.ep, r.page) IN sendJson(m, x.status, x.body, t)
              ELSE IF Strategy(v, tier) # "race" THEN SeqTry(v, m, k, 1, t)
              ELSE IF hits # {}
              THEN Took(v, [m1 EXCEPT !.req.k = k], k,
                        LruGetHit(m.cache, UpstreamKey(cands[Min(hits)]), t)[1].val.value, t)
              ELSE [m1 EXCEPT !.req.st = "wait", !.req.k = k,
                              !.req.pending = 1..Len(cands)]

\* start tier k; past the last tier the outer catch answers
Enter(v, m, k, t) ==
    LET r == m.req
        tiers == Tiers(v, r.ep)
    IN  IF k > Len(tiers)
        THEN LET x == Exhausted(v, r.ep, r.page) IN sendJson(m, x.status, x.body, t)
        ELSE
          LET tier == tiers[k]
              cands == CandUrls(v, r.ep, tier, r.q, r.page)
              hits == {i \in 1..Len(cands) : LruGetHit(m.cache, UpstreamKey(cands[i]), t) # None}
              m1 == RaceLookups(m, k, cands, 1, t)
          IN  IF tier = "html" /\ r.ep = "search" /\ r.page > 1
              THEN LET x == Exhausted(v, r.ep, r.page) IN sendJson(m, x.status, x.body, t)
              ELSE IF Strategy(v, tier) # "race" THEN SeqTry(v, m, k, 1, t)
              ELSE IF hits # {}
              THEN Took(v, [m1 EXCEPT !.req.k = k], k,
                        LruGetHit(m.cache, UpstreamKey(cands[Min(hits)]), t)[1].val.value, t)
              ELSE IF cands = <<>>
              THEN Enter(v, Log(m1, Ev("allfailed", k, NoUrl, NoPayload)), k + 1, t)
              ELSE [m1 EXCEPT !.req.st = "wait", !.req.k = k,
                              !.req.pending = 1..Len(cands)]

\* an empty query: !q
IsEmptyQuery(q) == q = <<>>

\* Handle without its look at the rendered cache
Handle_NoRendered(v, m, t) ==
    IF IsEmptyQuery(m.req.q) THEN sendJson(m, 200, EmptyQueryBody(m.req.ep), t)
    ELSE Enter(v, m, 1, t)

\* the handler from its first line to its first await
Handle(v, m, t) ==
    LET r == m.req
        hit == LruGetHit(m.cache, r.key, t)
        m1 == [GetM(m, r.key, t) EXCEPT
                  !.req.sawStale = IndexOf(m.cache, r.key) # 0 /\ hit = None]
    IN  IF hit # None
        THEN [m1 EXCEPT !.req.st = "done",
                        !.req.hit = hit,
                        !.req.resp = Some([status |-> hit[1].val.status,
                                           body |-> hit[1].val.body])]
        ELSE IF IsEmptyQuery(r.q)
        THEN sendJson(m1, 200, EmptyQueryBody(r.ep), t)
        ELSE Enter(v, m1, 1, t)

\* a race that gives the tier up at the first failure
OnFail_FailFast(v, m, f, t) ==
    LET r == m.req
        m1 == Log(m, Ev("fail", f.k, f.url, NoPayload))
    IN  IF ~(r.gen = f.gen /\ r.st = "wait" /\ r.k = f.k /\ f.idx \in r.pending) THEN m
        ELSE IF Strategy(v, Tiers(v, r.ep)[f.k]) = "race"
        THEN Enter(v, Log([m1 EXCEPT !.req.pending = {}], Ev("allfailed", f.k, NoUrl, NoPayload)),
                   f.k + 1, t)
        ELSE SeqTry(v, [m1 EXCEPT !.req.pending = {}], f.k, f.idx + 1, t)

\* a failure that is stored as a null payload under the url of the fetch
OnFail_StoresNull(v, m, f, t) ==
    LET m0 == SetM(m, UpstreamKey(f.url), RawVal(Payload("null", <<>>)), t)
        r == m0.req
        m1 == Log(m0, Ev("fail", f.k, f.url, NoPayload))
    IN  IF ~(r.gen = f.gen /\ r.st = "wait" /\ r.k = f.k /\ f.idx \in r.pending) THEN m0
        ELSE IF Strategy(v, Tiers(v, r.ep)[f.k]) = "race"
        THEN (IF r.pending = {f.idx}
              THEN Enter(v, Log([m1 EXCEPT !.req.pending = {}], Ev("allfailed", f.k, NoUrl, NoPayload)),
                         f.k + 1, t)
              ELSE [m1 EXCEPT !.req.pending = @ \ {f.idx}])
        ELSE SeqTry(v, [m1 EXCEPT !.req.pending = {}], f.k, f.idx + 1, t)

\* a fetch of the request settled with a failure
OnFail(v, m, f, t) ==
    LET r == m.req
        m1 == Log(m, Ev("fail", f.k, f.url, NoPayload))
    IN  IF ~(r.gen = f.gen /\ r.st = "wait" /\ r.k = f.k /\ f.idx \in r.pending) THEN m
        ELSE IF Strategy(v, Tiers(v, r.ep)[f.k]) = "race"
        THEN (IF r.pending = {f.idx}
              THEN Enter(v, Log([m1 EXCEPT !.req.pending = {}], Ev("allfailed", f.k, NoUrl, NoPayload)),
                         f.k + 1, t)
              ELSE [m1 EXCEPT !.req.pending = @ \ {f.idx}])
        ELSE SeqTry(v, [m1 EXCEPT !.req.pending = {}], f.k, f.idx + 1, t)

\* a fetch that is cancelled once its request no longer waits for it
OnOk_Cancelled(v, m, f, raw, t) ==
    LET r == m.req
        m1 == IF f.url.fam # "yt" THEN SetM(m, UpstreamKey(f.url), RawVal(raw), t) ELSE m
    IN  IF ~(r.gen = f.gen /\ r.st = "wait" /\ r.k = f.k /\ f.idx \in r.pending) THEN m
        ELSE Took(v, Log([m1 EXCEPT !.req.pending = {}], Ev("ok", f.k, f.url, raw)), f.k, raw, t)

\* a fetch whose payload is stored under the key of the inbound request
OnOk_InboundKey(v, m, f, raw, t) ==
    LET r == m.req
        m1 == IF f.url.fam # "yt" THEN SetM(m, r.key, RawVal(raw), t) ELSE m
    IN  IF ~(r.gen = f.gen /\ r.st = "wait" /\ r.k = f.k /\ f.idx \in r.pending) THEN m1
        ELSE Took(v, Log([m1 EXCEPT !.req.pending = {}], Ev("ok", f.k, f.url, raw)), f.k, raw, t)

\* a fetch whose payload is not stored
OnOk_NoStore(v, m, f, raw, t) ==
    LET r == m.req
    IN  IF ~(r.gen = f.gen /\ r.st = "wait" /\ r.k = f.k /\ f.idx \in r.pending) THEN m
        ELSE Took(v, Log([m EXCEPT !.req.pending = {}], Ev("ok", f.k, f.url, raw)), f.k, raw, t)

\* a fetch settled with the payload raw: getCached stores it, and the tier takes
\* it if the request still waits for this tier
OnOk(v, m, f, raw, t) ==
    LET r == m.req
        m1 == IF f.url.fam # "yt" THEN SetM(m, UpstreamKey(f.url), RawVal(raw), t) ELSE m
    IN  IF ~(r.gen = f.gen /\ r.st = "wait" /\ r.k = f.k /\ f.idx \in r.pending) THEN m1
        ELSE Took(v, Log([m1 EXCEPT !.req.pending = {}], Ev("ok", f.k, f.url, raw)), f.k, raw, t)


(* ------------------------- inputs of the model ------------------------ *)

\* the inbound requests of the model: [endpoint, q parameter, page parameter]
Req(ep, qParam, pageParam) == [ep |-> ep, qParam |-> qParam, pageParam |-> pageParam]

Requests ==
    {Req("search", Some(<<"a">>), None),
     Req("search", Some(<<"a">>), Some(1)),
     Req("search", None, None),
     Req("channels", Some(<<"a">>), None),
     Req("channels", Some(<<" ">>), None),
     Req("suggest", Some(<<"a">>), None),
     Req("suggest", Some(<<>>), None)}

\* a video the upstream sends without a type
VidNoType == [BlankItem EXCEPT !.videoId = "v1", !.uploader = "up"]

\* a playlist that carries its id under `id`
PlaylistById == [BlankItem EXCEPT !.type = "playlist", !.id = "p1", !.title = "pl"]

ChannelTyped == [BlankItem EXCEPT !.type = "channel", !.authorId = "c1", !.author = "ch"]

VideoNode == [BlankItem EXCEPT !.type = "videoRenderer", !.videoId = "v2", !.title = "t"]

ChannelNode == [BlankItem EXCEPT !.type = "channelRenderer", !.channelId = "c2"]

\* what an upstream may answer, by the kind of url
SearchPayloads ==
    {Payload("array", <<VidNoType, PlaylistById>>),
     Payload("array", <<>>),
     Payload("array", <<NullElem>>)}

SuggestPayloads ==
    {Payload("array", <<JStr(<<"a", "b">>), JNum(12)>>),
     Payload("array", <<>>)}

GooglePayloads ==
    {Payload("pair", <<JStr(<<"a", "c">>)>>)}

HtmlPayloads ==
    {Payload("html", <<VideoNode, ChannelNode>>),
     Payload("nohtml", <<>>)}

PipedPayloads ==
    {Payload("object", <<VidNoType, PlaylistById>>)}

PayloadsFor(u) ==
    CASE u.fam = "google" -> GooglePayloads
      [] u.fam = "yt" -> HtmlPayloads
      [] u.fam = "pip" /\ u.page > 0 -> PipedPayloads
      [] u.path \in {"/api/v1/search/suggestions?q=", "/suggestions?query=",
                     "/api/v1/suggestions?q="} -> SuggestPayloads
      [] OTHER -> SearchPayloads

(* ------------------------------- state -------------------------------- *)
(* cur is the request being handled, or the last one handled; gen numbers  *)
(* the requests, so that a fetch knows the request that issued it.  The    *)
(* request's log and its fields hit and sawStale are history: what the     *)
(* handler met.  okAt is history too: for each url, when its last fetch    *)
(* succeeded, with what payload, and whether no set has dropped the url's  *)
(* key for capacity since; evict tells                                     *)
(* whether every entry dropped for capacity so far was the first of order  *)
(* ("lru"), or one was not ("other"), or none was dropped ("none").        *)

NewReq(gen, in, t) ==
    [gen |-> gen, st |-> "new", ep |-> in.ep, qParam |-> in.qParam,
     pageParam |-> in.pageParam, key |-> InboundKey(in.ep, in.qParam, in.pageParam),
     q |-> QueryOf(in.qParam), page |-> PageOf(in.pageParam), at |-> t,
     k |-> 0, pending |-> {}, hit |-> None, sawStale |-> FALSE, log |-> <<>>,
     resp |-> None]

\* no pool override in the environment
NoEnv == [inv |-> None, pip |-> None]

\* the server after startup, before any request
Started ==
    /\ now = 0
    /\ cache = <<>>
    /\ order = <<>>
    /\ evict = "none"
    /\ okAt = {}
    /\ served = 0
    /\ cur = [NewReq(0, Req("search", None, None), 0) EXCEPT !.st = "idle"]
    /\ peer = [NewReq(0, Req("search", None, None), 0) EXCEPT !.st = "idle"]
    /\ inflight = {}

\* no function is being applied on its own
NoCall ==
    /\ fn = "none"
    /\ arg = <<>>
    /\ out = <<>>

Init ==
    /\ variant \in Variants
    /\ env = NoEnv
    /\ NoCall
    /\ Started

Machine(r) ==
    [cache |-> cache, order |-> order, evict |-> evict, gone |-> {}, req |-> r, out |-> {}]

\* the successes on record once those of news are added and the keys of gone
\* have been dropped for capacity
Successes(news, gone) ==
    {[s EXCEPT !.kept = @ /\ UpstreamKey(s.url) \notin gone] :
        s \in {x \in okAt : \A n \in news : x.url # n.url} \cup news}

Commit(m, gone, news) ==
    /\ cache' = m.cache
    /\ order' = m.order
    /\ evict' = m.evict
    /\ okAt' = Successes(news, m.gone)
    /\ cur' = m.req
    /\ inflight' = (inflight \ gone) \cup m.out
    /\ UNCHANGED <<variant, env, now, fn, arg, out>>

\* a request arrives and its handler runs to its first await
Arrive(in) ==
    /\ cur.st \in {"idle", "done"}
    /\ served < MaxRequests
    /\ served' = served + 1
    /\ Commit(Handle(variant, Machine(NewReq(served + 1, in, now)), now), {}, {})
    /\ UNCHANGED peer

\* an outbound fetch fails: non-success status, network error, abort on timeout,
\* or a body that is not JSON
SettleFail(f) ==
    /\ f \in inflight
    /\ Commit(OnFail(variant, Machine(cur), f, now), {f}, {})
    /\ UNCHANGED <<served, peer>>

\* an outbound fetch succeeds with a parsed payload
SettleOk(f, raw) ==
    /\ f \in inflight
    /\ raw \in PayloadsFor(f.url)
    /\ Commit(OnOk(variant, Machine(cur), f, raw, now), {f},
              {[url |-> f.url, t |-> now, p |-> raw, kept |-> TRUE]})
    /\ UNCHANGED <<served, peer>>

\* time passes.  The clock is coarse: a tick is a whole lifetime (CACHE_TTL_S, 600 s)
\* while a fetch ends within its timeout of a few seconds, so no fetch is in flight
\* over a tick; the time before the first request does not count
Tick ==
    /\ now < MaxTime
    /\ served > 0
    /\ inflight = {}
    /\ now' = now + 1
    /\ UNCHANGED <<variant, env, cache, order, evict, okAt, served, cur, peer, inflight,
                   fn, arg, out>>

Next ==
    \/ \E in \in Requests : Arrive(in)
    \/ \E f \in inflight : SettleFail(f)
    \/ \E f \in inflight : \E raw \in PayloadsFor(f.url) : SettleOk(f, raw)
    \/ Tick

Spec == Init /\ [][Next]_vars

(* ----------------------- upstreams that may hang ---------------------- *)
(* An upstream need not answer: SettleOk and SettleFail are its answers    *)
(* and nothing makes them happen.  What does happen is the timer of a      *)
(* fetch: setTimeout(() => ctrl.abort(), timeoutMs) in fetchText and in    *)
(* the getCachedJson / fetchJson of server.js:37-51 and part_000; the      *)
(* getCachedJson of part_001 calls fetch without a signal or a timer.      *)

HasTimeout(v) == v # "legacy"

\* the timer of the fetch f fires: the fetch is aborted and rejects
Timeout(f) ==
    /\ HasTimeout(variant)
    /\ SettleFail(f)

LiveNext ==
    \/ \E in \in Requests : Arrive(in)
    \/ \E f \in inflight : SettleFail(f)
    \/ \E f \in inflight : \E raw \in PayloadsFor(f.url) : SettleOk(f, raw)
    \/ \E f \in inflight : Timeout(f)

SpecLive == Init /\ [][LiveNext]_vars /\ WF_vars(\E f \in inflight : Timeout(f))

(* ------------------- requests for a page past the first --------------- *)

PagedRequests ==
    {Req("search", Some(<<"a">>), Some(2)),
     Req("channels", Some(<<"a">>), Some(2))}

PagedNext ==
    \/ \E in \in PagedRequests : Arrive(in)
    \/ \E f \in inflight : SettleFail(f)
    \/ \E f \in inflight : \E raw \in PayloadsFor(f.url) : SettleOk(f, raw)

SpecPaged == Init /\ [][PagedNext]_vars

(* ---------------- two requests in flight at the same time -------------- *)
(* cur is the first request and peer a second one for the same inbound     *)
(* key that arrives while the first awaits a fetch; a fetch settles into   *)
(* the handler of the request that issued it.                              *)

\* the handler's run ends: as Commit, the request being cur or peer
PairCommit(m, gone, news, second) ==
    /\ cache' = m.cache
    /\ order' = m.order
    /\ evict' = m.evict
    /\ okAt' = Successes(news, m.gone)
    /\ cur' = (IF second THEN cur ELSE m.req)
    /\ peer' = (IF second THEN m.req ELSE peer)
    /\ inflight' = (inflight \ gone) \cup m.out
    /\ UNCHANGED <<variant, env, now, fn, arg, out>>

\* the first request arrives
PairFirst(in) ==
    /\ served = 0
    /\ QueryOf(in.qParam) # <<>>
    /\ Arrive(in)

\* the second request, for the same path and query, arrives while the first waits
PairSecond ==
    /\ cur.st = "wait"
    /\ peer.st = "idle"
    /\ served' = served + 1
    /\ PairCommit(Handle(variant,
                          Machine(NewReq(served + 1, Req(cur.ep, cur.qParam, cur.pageParam), now)),
                          now),
                   {}, {}, TRUE)

PairSettleFail(f) ==
    /\ f \in inflight
    /\ PairCommit(OnFail(variant, Machine(IF f.gen = peer.gen THEN peer ELSE cur), f, now),
                   {f}, {}, f.gen = peer.gen)
    /\ UNCHANGED served

PairSettleOk(f, raw) ==
    /\ f \in inflight
    /\ raw \in PayloadsFor(f.url)
    /\ PairCommit(OnOk(variant, Machine(IF f.gen = peer.gen THEN peer ELSE cur), f, raw, now),
                   {f}, {[url |-> f.url, t |-> now, p |-> raw, kept |-> TRUE]},
                   f.gen = peer.gen)
    /\ UNCHANGED served

PairNext ==
    \/ \E in \in Requests : PairFirst(in)
    \/ PairSecond
    \/ \E f \in inflight : PairSettleFail(f)
    \/ \E f \in inflight : \E raw \in PayloadsFor(f.url) : PairSettleOk(f, raw)

SpecPair == Init /\ [][PairNext]_vars

(* --------------------- pools emptied by an override ------------------- *)
(* INVIDIOUS_POOL / PIPED_POOL set to the empty string: parsePool returns   *)
(* the empty list and the tier has no candidate.                            *)

PoolEnvs ==
    {[inv |-> Some(<<>>), pip |-> None],
     [inv |-> None, pip |-> Some(<<>>)],
     [inv |-> Some(<<>>), pip |-> Some(<<>>)]}

InitPools ==
    /\ variant \in {"race", "pool"}
    /\ env \in PoolEnvs
    /\ NoCall
    /\ Started

SpecPools == InitPools /\ [][Next]_vars

(* ------------------- functions applied on their own ------------------- *)
(* fn names the function, arg is its argument and out is empty before the  *)
(* call and holds the result after it.                                     *)

\* the longest override string
MaxOverride == 3

\* the characters of an override string
OverrideChars == {",", " ", "a", "b"}

\* process.env[envVar]: unset, or a string
Overrides ==
    {None} \cup {Some(s) : s \in UNION {[1..n -> OverrideChars] : n \in 0..MaxOverride}}

FnStart ==
    /\ env = NoEnv
    /\ Started
    /\ out = <<>>

InitParsePool ==
    /\ variant \in {"race", "pool"}
    /\ fn = "parsePool"
    /\ arg \in Overrides
    /\ FnStart

\* INVIDIOUS_POOL = parsePool("INVIDIOUS_POOL", [...]) at startup
CallParsePool ==
    /\ fn = "parsePool"
    /\ out = <<>>
    /\ out' = <<parsePool(arg, DefaultPool)>>
    /\ UNCHANGED <<variant, env, now, cache, order, evict, okAt, served, cur, peer,
                   inflight, fn, arg>>

\* the longest upstream suggestion list
MaxSuggest == 12

\* an upstream list of n suggestion entries, strings or numbers
SuggestLists ==
    {[i \in 1..n |-> JNum(i)] : n \in 0..MaxSuggest}
    \cup {[i \in 1..n |-> JStr(<<"s">> \o DigitsOf(i))] : n \in 0..MaxSuggest}

InitSuggest ==
    /\ variant \in Variants
    /\ fn = "suggest"
    /\ arg \in {[tier |-> t, raw |-> Payload("array", l)] : t \in {"inv", "pip"}, l \in SuggestLists}
    /\ FnStart

\* /suggest builds its response from the list a tier yielded
CallSuggest ==
    /\ fn = "suggest"
    /\ out = <<>>
    /\ out' = <<Accept(variant, "suggest", arg.tier, 1, arg.raw)>>
    /\ UNCHANGED <<variant, env, now, cache, order, evict, okAt, served, cur, peer,
                   inflight, fn, arg>>

\* what an upstream may send in a string field f: nothing (or null), the empty
\* string, or a value of its own
FieldVals(f) == <<UNDEF, "", f \o "!">>

\* the raw item base with the fields of G sent as c tells
WithFields(base, G, c) ==
    [f \in DOMAIN base |->
        IF \E i \in 1..Len(G) : G[i] = f
        THEN FieldVals(f)[c[CHOOSE i \in 1..Len(G) : G[i] = f]]
        ELSE base[f]]

\* the raw items that vary the fields of G
Varying(G) == {WithFields(BlankItem, G, c) : c \in [1..Len(G) -> 1..3]}

\* the alias lists normalizeVideo reads, and title
VideoAliases ==
    {<<"videoId", "id">>, <<"author", "uploader", "channelName">>,
     <<"authorId", "uploaderId", "channelId">>, <<"lengthSeconds", "duration">>,
     <<"publishedText", "uploadedDate">>, <<"title">>}

\* the alias lists normalizeChannel reads
ChannelAliases ==
    {<<"authorId", "id", "ucid">>, <<"author", "name", "title">>}

\* what an upstream may send in a view field
ViewVals == {JUndef, JNull, JStr(<<"1", "2", "3", "4">>), JStr(<<"x">>), JNum(7)}

RawVideos ==
    UNION {Varying(G) : G \in VideoAliases}
    \cup {[BlankItem EXCEPT !.viewCount = a, !.views = b] : a \in ViewVals, b \in ViewVals}

RawChannels == UNION {Varying(G) : G \in ChannelAliases}

InitNormalize ==
    /\ variant \in Variants
    /\ \/ fn = "normalizeVideo" /\ arg \in RawVideos
       \/ fn = "normalizeChannel" /\ arg \in RawChannels
    /\ FnStart

CallNormalizeVideo ==
    /\ fn = "normalizeVideo"
    /\ out = <<>>
    /\ out' = <<normalizeVideo(arg)>>
    /\ UNCHANGED <<variant, env, now, cache, order, evict, okAt, served, cur, peer,
                   inflight, fn, arg>>

CallNormalizeChannel ==
    /\ fn = "normalizeChannel"
    /\ out = <<>>
    /\ out' = <<normalizeChannel(arg)>>
    /\ UNCHANGED <<variant, env, now, cache, order, evict, okAt, served, cur, peer,
                   inflight, fn, arg>>

(* A parsed JSON value is a tree: a leaf (a scalar, truthy "x" or the falsy  *)
(* null), an array of trees, or an object, whose properties are its keys in *)
(* the order for..in visits them and kids, the value of each.               *)

Leaf(v) == [t |-> "leaf", v |-> v, keys |-> <<>>, kids |-> <<>>]

Arr(kids) == [t |-> "arr", v |-> "", keys |-> <<>>, kids |-> kids]

Obj(keys, kids) == [t |-> "obj", v |-> "", keys |-> keys, kids |-> kids]

\* !n is false: every array and object, and a scalar that is not null, false, 0 or ""
TruthyNode(n) == n.t # "leaf" \/ n.v # "null"

\* the position of the property key among the keys of the object n, 0 if it has none
KeyAt(n, key) ==
    IF \E i \in 1..Len(n.keys) : n.keys[i] = key
    THEN CHOOSE i \in 1..Len(n.keys) : n.keys[i] = key
    ELSE 0

RECURSIVE Flatten(_)
Flatten(xss) == IF xss = <<>> THEN <<>> ELSE Head(xss) \o Flatten(Tail(xss))

\* a walk that does not look inside a node it has collected
RECURSIVE walk_NoNested(_, _)
walk_NoNested(n, key) ==
    IF ~TruthyNode(n) THEN <<>>
    ELSE IF n.t = "arr" THEN Flatten([i \in 1..Len(n.kids) |-> walk_NoNested(n.kids[i], key)])
    ELSE IF n.t = "obj"
    THEN (IF KeyAt(n, key) # 0 /\ TruthyNode(n.kids[KeyAt(n, key)])
          THEN <<n.kids[KeyAt(n, key)]>> ELSE <<>>)
         \o Flatten([i \in 1..Len(n.kids) |->
                        IF i = KeyAt(n, key) THEN <<>> ELSE walk_NoNested(n.kids[i], key)])
    ELSE <<>>

\* the walk of collectRenderers: what it pushes to out, in order
RECURSIVE walk(_, _)
walk(n, key) ==
    IF ~TruthyNode(n) THEN <<>>
    ELSE IF n.t = "arr" THEN Flatten([i \in 1..Len(n.kids) |-> walk(n.kids[i], key)])
    ELSE IF n.t = "obj"
    THEN (IF KeyAt(n, key) # 0 /\ TruthyNode(n.kids[KeyAt(n, key)])
          THEN <<n.kids[KeyAt(n, key)]>> ELSE <<>>)
         \o Flatten([i \in 1..Len(n.kids) |-> walk(n.kids[i], key)])
    ELSE <<>>

collectRenderers(root, key) == walk(root, key)

\* the most elements of an array and properties of an object
MaxWidth == 2

TreeKeys == {"videoRenderer", "other"}

\* the lists of distinct property names
KeyLists ==
    {ks \in UNION {[1..n -> TreeKeys] : n \in 0..MaxWidth} :
        \A i, j \in 1..Len(ks) : ks[i] = ks[j] => i = j}

\* the trees of S, and the arrays and objects made of them
Grow(S) ==
    S \cup {Arr(k) : k \in UNION {[1..n -> S] : n \in 0..MaxWidth}}
      \cup UNION {{Obj(ks, k) : k \in [1..Len(ks) -> S]} : ks \in KeyLists}

\* the trees of S, and each of them wrapped in an array or an object
Wrap(S) ==
    S \cup {Arr(<<a>>) : a \in S} \cup {Obj(<<k>>, <<a>>) : k \in TreeKeys, a \in S}

Trees == Wrap(Grow(Grow({Leaf("x"), Leaf("null")})))

InitCollect ==
    /\ variant = "race"
    /\ fn = "collectRenderers"
    /\ arg \in Trees
    /\ FnStart

CallCollect ==
    /\ fn = "collectRenderers"
    /\ out = <<>>
    /\ out' = <<collectRenderers(arg, "videoRenderer")>>
    /\ UNCHANGED <<variant, env, now, cache, order, evict, okAt, served, cur, peer,
                   inflight, fn, arg>>

FnInit ==
    \/ InitParsePool
    \/ InitSuggest
    \/ InitNormalize
    \/ InitCollect

FnNext ==
    \/ CallParsePool
    \/ CallSuggest
    \/ CallNormalizeVideo
    \/ CallNormalizeChannel
    \/ CallCollect

SpecFn == FnInit /\ [][FnNext]_vars

(* ------------------------------ properties ---------------------------- *)

\* the entries a step adds to the log of the request being handled
NewEvents ==
    IF served' # served THEN cur'.log
    ELSE SubSeq(cur'.log, Len(cur.log) + 1, Len(cur'.log))

\* the positions of the log whose entry is the event e of tier k
At(log, e, k) == {i \in 1..Len(log) : log[i].e = e /\ log[i].k = k}

\* the store holds, at time t, an entry under key that has not outlived its lifetime
Fresh(c, key, t) == {i \in 1..Len(c) : c[i].key = key /\ t - c[i].born <= CACHE_TTL}

\* C1: on /search, /channels and /suggest, a request whose exact inbound key has
\* an unexpired rendered entry in the store is answered with exactly the stored
\* status and body, and neither fetches upstream nor runs any tier.
C1_RenderedHit ==
    [][\A in \in Requests :
         LET key == <<"/" \o in.ep, in.qParam, in.pageParam>>
         IN  (served' = served + 1 /\ cur'.key = key /\ Fresh(cache, key, now) # {})
             => /\ cur'.st = "done"
                /\ \E i \in Fresh(cache, key, now) :
                      cur'.resp = <<[status |-> cache[i].val.status,
                                     body |-> cache[i].val.body]>>
                /\ cur'.log = <<>>
                /\ inflight' = inflight]_vars

C1_Witness ==
    /\ cur.st = "done"
    /\ cur.hit # None
    /\ cur.q # <<>>
    /\ cur.log = <<>>

\* the q parameter is absent, empty, or nothing but spaces
Blank(qParam) == qParam = None \/ \A i \in 1..Len(qParam[1]) : qParam[1][i] = " "

\* C6: on /search, /channels and /suggest, a request whose q is absent, empty or
\* whitespace-only issues no upstream fetch and is answered 200 with an empty
\* result (items [] / suggestions []) that carries no error marker.
C6_EmptyQuery ==
    [][(served' = served + 1 /\ Blank(cur'.qParam))
       => /\ cur'.st = "done"
          /\ cur'.log = <<>>
          /\ inflight' = inflight
          /\ cur'.resp # None
          /\ cur'.resp[1].status = 200
          /\ cur'.resp[1].body.kind = (IF cur'.ep = "suggest" THEN "suggest" ELSE "items")
          /\ cur'.resp[1].body.items = <<>>
          /\ cur'.resp[1].body.suggestions = <<>>
          /\ cur'.resp[1].body.error = UNDEF]_vars

C6_Witness ==
    /\ cur.st = "done"
    /\ cur.qParam = Some(<<" ">>)
    /\ cur.hit = None
    /\ cur.resp # None

\* C7: a cache entry lives CACHE_TTL from its insertion and reads do not extend
\* that: a lookup hits only an entry inserted at most CACHE_TTL ago, and a
\* lookup of a key whose entry is older than that is a miss that goes on to
\* the tiers.
C7_Expiry ==
    [][/\ \A i \in 1..Len(cache') : cache'[i].start = cache'[i].born
       /\ served' = served + 1
          => /\ cur'.hit # None => Fresh(cache, cur'.key, now) # {}
             /\ (\E i \in 1..Len(cache) :
                    cache[i].key = cur'.key /\ now - cache[i].born > CACHE_TTL)
                => cur'.hit = None /\ (~Blank(cur'.qParam) => cur'.log # <<>>)
       /\ \A j \in 1..Len(NewEvents) :
             NewEvents[j].e = "hit"
             => Fresh(cache, <<"UPSTREAM:", NewEvents[j].u>>, now) # {}]_vars

C7_Witness ==
    /\ cur.st = "done"
    /\ cur.sawStale
    /\ cur.hit = None
    /\ cur.log # <<>>

\* C8: the store never holds more than CACHE_MAX entries, and the entry dropped
\* to make room for a new key is the least recently used one, a get that hits
\* and a set both counting as a use.
C8_BoundedLru ==
    /\ Len(cache) <= CACHE_MAX
    /\ \A i, j \in 1..Len(cache) : cache[i].key = cache[j].key => i = j
    /\ order = [i \in 1..Len(cache) |-> cache[i].key]
    /\ evict # "other"

C8_Witness ==
    /\ evict = "lru"
    /\ Len(cache) = CACHE_MAX

\* the positions of the log where tier k met the url u with one of the events es
Met(log, es, k, u) == {i \in 1..Len(log) : log[i].e \in es /\ log[i].k = k /\ log[i].u = u}

\* what Piped's rules make of a list: the kind is the type, nothing else decides
\* it; a playlist's id is its playlistId, or else its id
RECURSIVE C2_PipedRules(_)
C2_PipedRules(list) ==
    IF list = <<>> THEN <<>>
    ELSE LET it == Head(list)
             first(a, b) == IF a # UNDEF THEN a ELSE IF b # UNDEF THEN b ELSE "null"
             one == CASE it.type = "video" -> <<<<"video", first(it.videoId, it.id)>>>>
                      [] it.type = "channel" ->
                            <<<<"channel", first(it.authorId, first(it.id, it.ucid))>>>>
                      [] it.type = "playlist" ->
                            <<<<"playlist", IF it.playlistId # UNDEF THEN it.playlistId
                                            ELSE it.id>>>>
                      [] OTHER -> <<>>
         IN  one \o C2_PipedRules(Tail(list))

\* the kind and the id of each item of a response
KindIds(items) ==
    [i \in 1..Len(items) |->
        <<items[i].kind,
          CASE items[i].kind = "video" -> items[i].video.id
            [] items[i].kind = "channel" -> items[i].channel.id
            [] OTHER -> items[i].playlist.id>>]

\* C2: on /search with a non-empty q and no rendered hit, Piped (tier 2) is
\* fetched or looked up only after Invidious (tier 1) has failed, every
\* candidate of it or its payload; and when every Invidious candidate failed
\* and a Piped candidate succeeded, the items of the response are what Piped's
\* rules make of that payload.
C2_TierOrder ==
    (cur.ep = "search" /\ cur.st # "idle")
    => LET log == cur.log
           inv == CandUrls(variant, "search", "inv", cur.q, cur.page)
           invFailed(i) ==
               \/ \A c \in 1..Len(inv) : \E j \in Met(log, {"fail"}, 1, inv[c]) : j < i
               \/ \E j \in At(log, "reject", 1) : j < i
           pip == {i \in 1..Len(log) : log[i].u # NoUrl /\ log[i].u.fam = "pip"}
           got == {i \in 1..Len(log) : log[i].e \in {"ok", "hit"} /\ log[i].k = 2}
       IN  /\ \A i \in pip : log[i].k = 2 /\ invFailed(i)
           /\ \A f \in inflight :
                 (f.gen = cur.gen /\ f.url.fam = "pip")
                 => Met(log, {"issue"}, 2, f.url) # {}
           /\ (cur.st = "done" /\ got # {}
               /\ \A c \in 1..Len(inv) : Met(log, {"fail"}, 1, inv[c]) # {})
              => KindIds(cur.resp[1].body.items)
                   = C2_PipedRules(log[CHOOSE i \in got : \A j \in got : i <= j].p.list)

C2_Witness ==
    /\ cur.ep = "search"
    /\ cur.st = "done"
    /\ cur.hit = None
    /\ At(cur.log, "fail", 1) # {}
    /\ At(cur.log, "ok", 2) # {}
    /\ KindIds(cur.resp[1].body.items) = <<<<"playlist", "p1">>>>

\* C10: in the race (firstResolved over a tier's candidates) every candidate
\* is looked up or fetched before any of them settles and the fetches run
\* together; the first candidate to succeed gives the tier its payload at once,
\* the others still running; and the tier fails only when every candidate failed.
C10_Race ==
    variant = "race"
    => \A k \in 1..Len(Tiers(variant, cur.ep)) :
         LET tier == Tiers(variant, cur.ep)[k]
             log == cur.log
             cands == CandUrls(variant, cur.ep, tier, cur.q, cur.page)
             settled == {i \in 1..Len(log) :
                            log[i].k = k /\ log[i].e \in {"ok", "fail", "accept", "reject",
                                                            "allfailed"}}
             oks == At(log, "ok", k)
             failed == {c \in 1..Len(cands) : Met(log, {"fail"}, k, cands[c]) # {}}
         IN  (Strategy(variant, tier) = "race" /\ \E i \in 1..Len(log) : log[i].k = k)
             => /\ \A c \in 1..Len(cands) :
                      \E i \in Met(log, {"issue", "hit"}, k, cands[c]) :
                          \A j \in settled : i < j
                /\ (cur.st = "wait" /\ cur.k = k)
                   => \A c \in 1..Len(cands) :
                         c \notin failed
                         => [gen |-> cur.gen, k |-> k, idx |-> c, url |-> cands[c]] \in inflight
                /\ \A i \in oks :
                      /\ oks = {i}
                      /\ i < Len(log)
                      /\ log[i + 1].k = k
                      /\ log[i + 1].e \in {"accept", "reject"}
                /\ (oks = {} /\ At(log, "hit", k) = {} /\ failed # 1..Len(cands))
                   => cur.st = "wait" /\ cur.k = k
                /\ At(log, "allfailed", k) # {}
                   => /\ failed = 1..Len(cands)
                      /\ oks = {}

C10_Witness ==
    /\ variant = "race"
    /\ cur.st = "done"
    /\ At(cur.log, "ok", 2) # {}
    /\ At(cur.log, "accept", 2) # {}
    /\ \E f \in inflight : f.gen = cur.gen /\ f.k = 2

\* the payload tier k took: that of its first success, fetched or found stored
TakenAt(log, k) ==
    LET got == {i \in 1..Len(log) : log[i].e \in {"ok", "hit"} /\ log[i].k = k}
    IN  IF got = {} THEN NoPayload ELSE log[CHOOSE i \in got : \A j \in got : i <= j].p

\* C3: on /search, /channels and /suggest, a tier whose payload yields an empty
\* list counts as failed: the handler does not answer from tier k but goes on
\* to tier k + 1.
C3_EmptyIsFailure ==
    \A k \in 1..(Len(Tiers(variant, cur.ep)) - 1) :
        (TakenAt(cur.log, k) # NoPayload /\ TakenAt(cur.log, k).list = <<>>)
        => At(cur.log, "accept", k) = {}

\* every tier of the request failed: no tier's payload was accepted
AllTiersFailed ==
    /\ cur.st = "done"
    /\ cur.hit = None
    /\ ~Blank(cur.qParam)
    /\ \A i \in 1..Len(cur.log) : cur.log[i].e # "accept"

\* C4: /search and /channels never answer with a 5xx status, and when every
\* tier has failed they answer 200 with items [] and an error marker.
C4_NoServerError ==
    (cur.st = "done" /\ cur.ep \in {"search", "channels"})
    => /\ cur.resp[1].status < 500
       /\ AllTiersFailed
          => /\ cur.resp[1].status = 200
             /\ cur.resp[1].body.items = <<>>
             /\ cur.resp[1].body.error # UNDEF

\* C5: /suggest never answers with a 5xx status, and when every tier has
\* failed it answers 200 with suggestions [] and an error marker.
C5_SuggestNoServerError ==
    (cur.st = "done" /\ cur.ep = "suggest")
    => /\ cur.resp[1].status < 500
       /\ cur.resp[1].body.kind = "suggest"
       /\ AllTiersFailed
          => /\ cur.resp[1].status = 200
             /\ cur.resp[1].body.suggestions = <<>>
             /\ cur.resp[1].body.error # UNDEF

\* C9 as stated: once a fetch of the outbound url u has succeeded, no request
\* fetches u again within CACHE_TTL of that success.
C9_NoRefetch ==
    [][\A j \in 1..Len(NewEvents) :
          NewEvents[j].e = "issue"
          => ~\E s \in okAt : s.url = NewEvents[j].u /\ now - s.t <= CACHE_TTL]_vars

\* C9, amended: the payload of a successful fetch of a JSON tier's url u
\* (Invidious, Piped, Google suggest) is stored under "UPSTREAM:" + u; a raw
\* hit hands out the stored payload; and u is fetched again within CACHE_TTL of
\* that success only if a set has dropped its entry for capacity.  The results
\* page of the scrape tier is not stored.
C9_RawReuse ==
    [][/\ \A j \in 1..Len(NewEvents) :
             LET ev == NewEvents[j] IN
             /\ ev.e = "hit"
                => \E i \in Fresh(cache, <<"UPSTREAM:", ev.u>>, now) :
                      cache[i].val.value = ev.p
             /\ (ev.e = "issue" /\ ev.u.fam # "yt")
                => ~\E s \in okAt' : s.url = ev.u /\ s.kept /\ now - s.t <= CACHE_TTL
       /\ \A s \in okAt' \ okAt :
             (s.url.fam # "yt" /\ s.kept)
             => \E i \in 1..Len(cache') :
                   /\ cache'[i].key = <<"UPSTREAM:", s.url>>
                   /\ cache'[i].val.value = s.p
                   /\ cache'[i].born = s.t
       /\ \A i \in 1..Len(cache') : cache'[i].key[1] = "UPSTREAM:" => cache'[i].key[2].fam # "yt"]_vars

\* a request met, stored, the payload an earlier request with another inbound
\* key had fetched
C9_Witness ==
    /\ cur.st = "done"
    /\ cur.hit = None
    /\ ~cur.sawStale
    /\ cur.pageParam = Some(1)
    /\ \E i \in 1..Len(cur.log) :
          /\ cur.log[i].e = "hit"
          /\ \E s \in okAt : s.url = cur.log[i].u /\ s.p = cur.log[i].p /\ s.kept
    /\ \A i \in 1..Len(cur.log) : cur.log[i].e # "issue"
    /\ \E i \in 1..Len(cache) :
          cache[i].val.tag = "resp" /\ cache[i].key = <<"/search", Some(<<"a">>), None>>

\* C11: a fetch that is still in flight when its request has been answered (a
\* loser of the race) runs on: when it settles, the request, its response and
\* every rendered entry stay as they are, no second response is sent, and a
\* success writes the payload to the raw cache under the fetch's own url.
C11_Losers ==
    [][\A f \in inflight \ inflight' :
          (f.gen < cur.gen \/ (f.gen = cur.gen /\ cur.st = "done"))
          => /\ cur' = cur
             /\ served' = served
             /\ \A i \in 1..Len(cache') :
                   cache'[i].val.tag = "resp" => \E j \in 1..Len(cache) : cache[j] = cache'[i]
             /\ \A s \in okAt' \ okAt :
                   (s.url = f.url /\ s.url.fam # "yt")
                   => \E i \in 1..Len(cache') :
                            /\ cache'[i].key = <<"UPSTREAM:", f.url>>
                            /\ cache'[i].val.value = s.p
                            /\ cache'[i].born = now]_vars

\* a loser of the answered request has settled with a success and is stored
C11_Witness ==
    /\ variant = "race"
    /\ cur.st = "done"
    /\ \E i \in 1..Len(cur.log) :
          LET u == cur.log[i].u IN
          /\ cur.log[i].e = "issue"
          /\ Met(cur.log, {"ok", "fail"}, cur.log[i].k, u) = {}
          /\ \A f \in inflight : ~(f.gen = cur.gen /\ f.url = u)
          /\ \E s \in okAt : s.url = u /\ s.t = cur.at
          /\ \E j \in 1..Len(cache) : cache[j].key = <<"UPSTREAM:", u>> /\ cache[j].born = cur.at

\* C12: two requests with the same inbound key that are in flight together and
\* both miss the rendered cache write the same status and body under the key.
C12_Interchangeable ==
    (cur.st = "done" /\ peer.st = "done" /\ cur.hit = None /\ peer.hit = None
     /\ cur.key = peer.key)
    => cur.resp = peer.resp

\* C13: every outbound fetch has a timer of its own: whatever the upstream
\* does, the fetch can be aborted and reported as a failure of its candidate,
\* so that no request waits for ever on an upstream that never answers.
C13_EveryFetchTimed == \A f \in inflight : ENABLED Timeout(f)

\* C14: on /search and /channels a request for a page past the first never
\* fetches the results web page, and when Invidious and Piped have both failed
\* it is answered with an empty degraded result.
C14_ScrapeFirstPageOnly ==
    (cur.ep \in {"search", "channels"} /\ cur.page > 1 /\ cur.st # "idle")
    => /\ \A i \in 1..Len(cur.log) : cur.log[i].u.fam # "yt"
       /\ \A f \in inflight : f.gen = cur.gen => f.url.fam # "yt"
       /\ (cur.st = "done" /\ cur.hit = None
           /\ At(cur.log, "accept", 1) = {} /\ At(cur.log, "accept", 2) = {})
          => /\ cur.resp[1].body.items = <<>>
             /\ cur.resp[1].body.error # UNDEF

\* C15: when the scrape tier has fetched the page and no pattern yields a blob
\* that parses, the endpoint answers 200 with an empty item list that carries
\* the parse-failure marker yt_html_parse_failed.
C15_ParseFailureMarker ==
    (cur.st = "done" /\ cur.hit = None
     /\ \E i \in 1..Len(cur.log) :
           cur.log[i].e = "ok" /\ cur.log[i].u.fam = "yt" /\ cur.log[i].p.shape = "nohtml")
    => /\ cur.resp[1].status = 200
       /\ cur.resp[1].body.items = <<>>
       /\ cur.resp[1].body.error = "yt_html_parse_failed"

\* the members of an override string: its pieces between commas, trimmed, that
\* are not empty
Members(s) ==
    LET cuts == <<0>> \o SelectSeq([i \in 1..Len(s) |-> IF s[i] = "," THEN i ELSE 0],
                                   LAMBDA i : i > 0) \o <<Len(s) + 1>>
        piece(k) == SubSeq(s, cuts[k] + 1, cuts[k + 1] - 1)
        NotSpace(p) == {i \in 1..Len(p) : p[i] # " "}
        trimmed(p) == IF NotSpace(p) = {} THEN <<>>
                      ELSE SubSeq(p, Min(NotSpace(p)), Len(p) + 1 - Min({Len(p) + 1 - i : i \in NotSpace(p)}))
    IN  SelectSeq([k \in 1..(Len(cuts) - 1) |-> trimmed(piece(k))], LAMBDA p : p # <<>>)

\* C16: for every value of the override variable, parsePool returns the trimmed
\* non-empty members of the override, in order, when there is at least one, and
\* the default list otherwise; the pool is never empty.
C16_PoolNeverEmpty ==
    (fn = "parsePool" /\ out # <<>>)
    => /\ out[1] # <<>>
       /\ out[1] = (IF arg # None /\ Members(arg[1]) # <<>> THEN Members(arg[1]) ELSE DefaultPool)

\* the request has come to tier k: it is the first, or the tier before it was given up
CameTo(r, k) ==
    /\ r.st \in {"wait", "done"}
    /\ r.hit = None
    /\ ~IsEmptyQuery(r.q)
    /\ \/ k = 1
       \/ At(r.log, "allfailed", k - 1) # {}
       \/ At(r.log, "reject", k - 1) # {}

\* C17: a tier whose pool is empty has no candidate url and is skipped without
\* error: nothing is fetched for it, it is reported failed, the next tier is
\* tried (or, past the last one, the request is answered), and the answer has
\* no error status.
C17_EmptyPoolSkipped ==
    \A k \in 1..Len(Tiers(variant, cur.ep)) :
        (/\ Tiers(variant, cur.ep)[k] \in {"inv", "pip"}
         /\ Pool(variant, Tiers(variant, cur.ep)[k]) = <<>>
         /\ CameTo(cur, k))
        => /\ CandUrls(variant, cur.ep, Tiers(variant, cur.ep)[k], cur.q, cur.page) = <<>>
           /\ \A i \in 1..Len(cur.log) : cur.log[i].k = k => cur.log[i].e = "allfailed"
           /\ \A f \in inflight : f.gen = cur.gen => f.k # k
           /\ At(cur.log, "allfailed", k) # {}
           /\ IF k < Len(Tiers(variant, cur.ep))
              THEN \E i \in 1..Len(cur.log) : cur.log[i].k = k + 1
              ELSE cur.st = "done"
           /\ cur.st = "done" => cur.resp[1].status = 200

\* the Invidious pool is empty and the request was answered by the tier after it
C17_Witness ==
    /\ variant = "race"
    /\ env.inv = Some(<<>>)
    /\ Pool(variant, "inv") = <<>>
    /\ cur.st = "done"
    /\ At(cur.log, "allfailed", 1) # {}
    /\ At(cur.log, "accept", 2) # {}
    /\ cur.resp[1].status = 200

\* C18: a /suggest response built from an upstream list of n entries returns
\* exactly the first min(n, 10) entries, as strings, in the original order.
C18_SuggestCap ==
    (fn = "suggest" /\ out # <<>> /\ out[1].go = "respond")
    => LET list == arg.raw.list
           n == Len(list)
           m == IF n < 10 THEN n ELSE 10
       IN  /\ out[1].status = 200
           /\ Len(out[1].body.suggestions) = m
           /\ \A i \in 1..m : out[1].body.suggestions[i] = ToStr(list[i])

\* the first of the values xs that is present and not null, or dflt when none is
FirstPresent(xs, dflt) ==
    LET there == {i \in 1..Len(xs) : xs[i] # UNDEF}
    IN  IF there = {} THEN dflt ELSE xs[CHOOSE i \in there : \A j \in there : i <= j]

\* C19: normalizeVideo and normalizeChannel take each canonical attribute from
\* its ordered alias list, the first alias that is present and not null winning:
\* channelName is author, else uploader, else channelName, else null; likewise
\* id, channelId, durationSeconds, publishedText and the channel's id and title.
C19_Aliases ==
    /\ (fn = "normalizeVideo" /\ out # <<>>)
       => /\ out[1].id = FirstPresent(<<arg.videoId, arg.id>>, "null")
          /\ out[1].title = FirstPresent(<<arg.title>>, "")
          /\ out[1].channelName
                = FirstPresent(<<arg.author, arg.uploader, arg.channelName>>, "null")
          /\ out[1].channelId
                = FirstPresent(<<arg.authorId, arg.uploaderId, arg.channelId>>, "null")
          /\ out[1].durationSeconds = FirstPresent(<<arg.lengthSeconds, arg.duration>>, "null")
          /\ out[1].publishedText
                = FirstPresent(<<arg.publishedText, arg.uploadedDate>>, "null")
    /\ (fn = "normalizeChannel" /\ out # <<>>)
       => /\ out[1].id = FirstPresent(<<arg.authorId, arg.id, arg.ucid>>, "null")
          /\ out[1].title = FirstPresent(<<arg.author, arg.name, arg.title>>, "")

\* a raw video with uploader and channelName but no author got uploader's value
C19_Witness ==
    /\ fn = "normalizeVideo"
    /\ out # <<>>
    /\ arg.author = UNDEF
    /\ arg.uploader = "uploader!"
    /\ arg.channelName = "channelName!"
    /\ out[1].channelName = "uploader!"

\* C20: normalizeVideo coerces the view count: when the view field (viewCount,
\* else views) is the numeric string "1234" the result is the number 1234, and
\* when there is no view field it is 0.
C20_ViewCount ==
    (fn = "normalizeVideo" /\ out # <<>>)
    => LET absent(x) == x \in {JUndef, JNull}
           s1234 == JStr(<<"1", "2", "3", "4">>)
       IN  /\ (arg.viewCount = s1234 \/ (absent(arg.viewCount) /\ arg.views = s1234))
              => out[1].viewCount = [t |-> "num", n |-> 1234, s |-> <<>>]
           /\ (absent(arg.viewCount) /\ absent(arg.views))
              => out[1].viewCount = [t |-> "num", n |-> 0, s |-> <<>>]

\* a raw video with views "1234" and no viewCount was given the number 1234
C20_Witness ==
    /\ fn = "normalizeVideo"
    /\ out # <<>>
    /\ arg.viewCount = JUndef
    /\ arg.views = JStr(<<"1", "2", "3", "4">>)
    /\ out[1].viewCount.t = "num"
    /\ out[1].viewCount.n = 1234

\* C21: every video item of a response, whichever tier produced it, has a
\* viewCount that is a non-negative integer, never null and never not-a-number.
C21_ViewCountIsNumber ==
    (cur.st = "done" /\ cur.ep = "search")
    => \A i \in 1..Len(cur.resp[1].body.items) :
          cur.resp[1].body.items[i].kind = "video"
          => /\ cur.resp[1].body.items[i].video.viewCount.t = "num"
             /\ cur.resp[1].body.items[i].video.viewCount.n >= 0

SuppliedId(e) ==
    \E a \in {e.videoId, e.id, e.authorId, e.channelId, e.ucid, e.playlistId} : Truthy(a)

\* C23: every item of a /search response is a complete canonical item: its kind
\* is video, channel or playlist, and its id is not null whenever the source
\* entries it was made from supplied an id under a known alias.
C23_CompleteItems ==
    \A k \in 1..Len(Tiers(variant, cur.ep)) :
        (cur.st = "done" /\ cur.ep = "search" /\ cur.hit = None /\ At(cur.log, "accept", k) # {})
        => LET src == TakenAt(cur.log, k).list
               ids == KindIds(cur.resp[1].body.items)
           IN  /\ \A i \in 1..Len(ids) : ids[i][1] \in {"video", "channel", "playlist"}
               /\ (\A j \in 1..Len(src) : SuppliedId(src[j]))
                  => \A i \in 1..Len(ids) : ids[i][2] \notin {UNDEF, "null"}

\* nothing of a tier after k was looked up or fetched for the request
NothingPast(k) ==
    /\ \A i \in 1..Len(cur.log) : cur.log[i].k <= k
    /\ \A f \in inflight : f.gen = cur.gen => f.k <= k

\* C24: the handler stops at the first tier that produces a result: once the
\* payload of tier k is accepted and the response sent, no candidate of a tier
\* after k is fetched for the request, and the accepted result is not empty.
C24_StopAtFirst ==
    \A k \in 1..Len(Tiers(variant, cur.ep)) :
        (cur.st = "done" /\ cur.hit = None /\ At(cur.log, "accept", k) # {})
        => /\ NothingPast(k)
           /\ cur.resp[1].status = 200
           /\ IF cur.ep = "suggest"
              THEN cur.resp[1].body.suggestions # <<>>
              ELSE cur.resp[1].body.items # <<>>

\* the paths of a tree: the positions taken from the root down to a node
RECURSIVE PathsOf(_)
PathsOf(n) ==
    {<<>>} \cup UNION {{<<i>> \o q : q \in PathsOf(n.kids[i])} : i \in 1..Len(n.kids)}

RECURSIVE NodeAt(_, _)
NodeAt(n, q) == IF q = <<>> THEN n ELSE NodeAt(n.kids[Head(q)], Tail(q))

\* depth-first pre-order: a node before what is below it, then by position
Before(a, b) ==
    \/ Len(a) < Len(b) /\ SubSeq(b, 1, Len(a)) = a
    \/ \E i \in 1..Len(a) :
          /\ i <= Len(b)
          /\ SubSeq(a, 1, i - 1) = SubSeq(b, 1, i - 1)
          /\ a[i] < b[i]

\* the values under key of the objects at the paths P, in pre-order
InPreOrder(root, key, P) ==
    [i \in 1..Cardinality(P) |->
        LET q == CHOOSE a \in P : Cardinality({b \in P : Before(b, a)}) = i - 1
        IN  NodeAt(root, q).kids[KeyAt(NodeAt(root, q), key)]]

\* the objects of the tree that have the property key at all
Carriers(root, key) ==
    {q \in PathsOf(root) : NodeAt(root, q).t = "obj" /\ KeyAt(NodeAt(root, q), key) # 0}

\* those whose value under key is not null, false, 0 or ""
TruthyCarriers(root, key) ==
    {q \in Carriers(root, key) :
        TruthyNode(NodeAt(root, q).kids[KeyAt(NodeAt(root, q), key)])}

\* C25, as stated: collectRenderers returns one node for every object of the
\* tree that carries key, also inside a node already collected, in depth-first
\* pre-order, and nothing else.
C25_EveryCarrier ==
    (fn = "collectRenderers" /\ out # <<>>)
    => out[1] = InPreOrder(arg, "videoRenderer", Carriers(arg, "videoRenderer"))

\* C25, amended: collectRenderers returns one node for every object of the tree
\* whose value under key is truthy, also inside a node already collected, in
\* depth-first pre-order, and nothing else.
C25_TruthyCarriers ==
    (fn = "collectRenderers" /\ out # <<>>)
    => out[1] = InPreOrder(arg, "videoRenderer", TruthyCarriers(arg, "videoRenderer"))

\* a collected node that itself carries the key, under an array: both collected
C25_Witness ==
    /\ fn = "collectRenderers"
    /\ out # <<>>
    /\ arg.t = "arr"
    /\ Len(out[1]) = 2
    /\ out[1][1].t = "obj"
    /\ KeyAt(out[1][1], "videoRenderer") # 0
    /\ out[1][2] = out[1][1].kids[KeyAt(out[1][1], "videoRenderer")]

\* C26: the raw and the rendered entries of the store never collide: an entry
\* keyed "UPSTREAM:" + url holds a raw payload and no other entry does, an
\* entry keyed by an inbound path and query holds a status and a body, and the
\* rendered lookup of a request never returns a raw entry.
C26_Namespaces ==
    /\ \A i \in 1..Len(cache) :
          /\ cache[i].val.tag \in {"raw", "resp"}
          /\ cache[i].val.tag = "raw"
             <=> (Len(cache[i].key) = 2 /\ cache[i].key[1] = "UPSTREAM:")
          /\ cache[i].val.tag = "resp"
             <=> (Len(cache[i].key) = 3
                  /\ cache[i].key[1] \in {"/search", "/channels", "/suggest"})
    /\ cur.hit # None => cur.hit[1].val.tag = "resp" /\ cur.hit[1].key = cur.key
    /\ \A i \in 1..Len(cur.log) :
          cur.log[i].e = "hit" => cur.log[i].p \in PayloadsFor(cur.log[i].u)

\* a rendered hit while the store holds entries of both kinds
C26_Witness ==
    /\ cur.st = "done"
    /\ cur.hit # None
    /\ \E i \in 1..Len(cache) : cache[i].val.tag = "raw"
    /\ \E i \in 1..Len(cache) : cache[i].val.tag = "resp"

C28_MarkerMeansEmpty ==
    (cur.st = "done" /\ cur.ep \in {"search", "channels"} /\ cur.resp[1].body.error # UNDEF)
    => cur.resp[1].body.items = <<>>

\* C29: a fetch that fails writes nothing: a raw entry appears in the store only
\* in the step in which a fetch of its url settles with a success, holding the
\* payload of that success; no step that issues a fetch or settles one with a
\* failure adds or changes a raw entry.
C29_RawOnlyOnSuccess ==
    [][\A i \in 1..Len(cache') :
          cache'[i].val.tag = "raw"
          => \/ \E j \in 1..Len(cache) : cache[j] = cache'[i]
             \/ \E f \in inflight \ inflight' :
                   /\ cache'[i].key = UpstreamKey(f.url)
                   /\ cache'[i].born = now
                   /\ \E s \in okAt' :
                         s.url = f.url /\ s.t = now /\ s.p = cache'[i].val.value]_vars

\* a candidate failed and has no entry, while the one that succeeded has
C29_Witness ==
    /\ \E i \in 1..Len(cur.log) :
          /\ cur.log[i].e = "fail"
          /\ \A j \in 1..Len(cache) : cache[j].key # UpstreamKey(cur.log[i].u)
    /\ \E i \in 1..Len(cur.log) :
          /\ cur.log[i].e = "ok"
          /\ \E j \in 1..Len(cache) :
                cache[j].key = UpstreamKey(cur.log[i].u) /\ cache[j].val.value = cur.log[i].p

====
